---- MODULE Spec2Model ----
(***************************************************************************)
(* Model of the session convergence engine of qa-automation-ui:            *)
(*   - the polling driver  (src/src/hooks/useSessionPolling.ts)            *)
(*   - the verdict reconciler (src/src/logic/quicksetStatus.ts)            *)
(***************************************************************************)
EXTENDS Integers, Sequences, FiniteSets, TLC

(***************************************************************************)
(* Bounds                                                                  *)
(***************************************************************************)
\* number of effect runs (subscriptions) explored
MaxGen == 3
\* number of getSession calls explored
MaxPolls == 4

(***************************************************************************)
(* Values                                                                  *)
(***************************************************************************)
\* JavaScript null / undefined of a string-typed slot
NULL == "<null>"

\* timers are created with this delay; the model keeps only their order
POLL_INTERVAL_MS == 2000

SessionIds == {"first", "second"}
SessionIdProps == SessionIds \cup {NULL}
ApiKeyProps == {"key", NULL}

\* finished_at?: string | null  (an empty string is a string, and falsy)
FinishedAtValues == {NULL, "", "2025-12-08T06:45:55Z"}

\* data === null
NoData == [nodata |-> TRUE]

\* TvAutoSyncSessionResponse, reduced to the fields the driver reads;
\* analyzer_ready?: boolean, absent behaves as false under "=== true"
Envelope(sid, fin, ready) ==
  [session |-> [session_id |-> sid, finished_at |-> fin, analyzer_ready |-> ready]]

Envelopes ==
  {Envelope(sid, fin, ready) : sid \in SessionIds, fin \in FinishedAtValues, ready \in BOOLEAN}

\* what getSession(sessionId, ...) resolves with: the envelope of that session
Responses(sid) ==
  {Envelope(sid, fin, ready) : fin \in FinishedAtValues, ready \in BOOLEAN}

\* what getSession rejects with: an Error carrying a message, or another value
Failures ==
  {[isError |-> TRUE, message |-> "Network Error"], [isError |-> FALSE, message |-> ""]}

\* the argument of setData: a value, or an updater function (prev) => next
SetStateActions ==
  {[fn |-> FALSE, value |-> v] : v \in Envelopes \cup {NoData}}
    \cup {[fn |-> TRUE, value |-> NoData]}

(***************************************************************************)
(* State of one mounted useSessionPolling                                  *)
(***************************************************************************)
VARIABLES
  sessionId,            \* prop
  apiKey,               \* prop
  data,                 \* useState: snapshot or NoData
  error,                \* useState: message or NULL
  timerRef,             \* timerRef.current: a timer id, 0 for null
  completedRef,         \* completedRef.current
  generationRef,        \* generationRef.current
  activeControllerRef,  \* activeControllerRef.current: a controller id, 0 for null
  cancelled,            \* the effect runs whose closure variable cancelled is true
  timers,               \* pending window timers, each holding a poll closure
  fetches,              \* getSession promises that have not settled yet
  pollCount,            \* number of getSession calls made so far
  dataGen,              \* history: effect run whose fetch produced data, 0 if none
  errorGen,             \* history: effect run whose fetch produced error, 0 if none
  failStreak,           \* history: consecutive applied failures of this subscription
  droppedStale,         \* history: a settled fetch has been discarded as stale
  droppedFailure,       \* history: a rejection has been discarded by the catch block
  pollTerminal,         \* history: a poll applied a terminal snapshot in this subscription
  injectedTerminal      \* history: setData injected a terminal snapshot in this subscription

\* one call of the reconciler
VARIABLES
  session,              \* argument: TvAutoSyncSession
  analysisDetails,      \* argument: QuicksetAnalysisDetails or undefined
  result                \* the MetricStatusesResult returned, or NoResult before the call

\* one render of QuicksetSessionSummary (its session prop is the variable session)
VARIABLES
  timeline,             \* prop: TvAutoSyncTimelineEvent[]
  summary               \* what the render shows, or NoSummary before it

\* the state of the QuickSetRunner page (the hook it mounts is reduced to the
\* snapshot it exposes)
VARIABLES
  selectedScenarioId,     \* useState
  selectedSessionId,      \* useState: a session id or NULL
  lastSessionByScenario,  \* useState: scenario id -> session id or NULL
  completionBanner,       \* useState: the banner's sessionId, or NULL
  sessionData,            \* data of useSessionPolling(selectedSessionId, activeApiKey)
  pendingRun,             \* the scenario of the runScenario call awaited, or NULL
  pendingAnswer           \* the session of the answerQuestion call awaited, or NULL

hookVars == <<sessionId, apiKey, data, error, timerRef, completedRef, generationRef,
          activeControllerRef, cancelled, timers, fetches, pollCount,
          dataGen, errorGen, failStreak, droppedStale, droppedFailure, pollTerminal,
          injectedTerminal>>

reconcilerVars == <<session, analysisDetails, result>>

summaryVars == <<timeline, summary>>

pageVars == <<selectedScenarioId, selectedSessionId, lastSessionByScenario, completionBanner,
              sessionData, pendingRun, pendingAnswer>>

vars == <<hookVars, reconcilerVars, summaryVars, pageVars>>

hist == <<dataGen, errorGen, failStreak, droppedStale, droppedFailure, pollTerminal,
          injectedTerminal>>

(***************************************************************************)
(* Helpers of the hook                                                     *)
(***************************************************************************)
\* !value for a string | null
Falsy(s) == s = NULL \/ s = ""

\* isComplete(payload)
isComplete(payload) ==
  IF payload = NoData
    THEN FALSE
    ELSE LET finished == ~Falsy(payload.session.finished_at)
         IN finished /\ payload.session.analyzer_ready = TRUE

\* variant: the pending timeout is left alone
clearTimer_noop(ts, ref) == ts

\* clearTimer(): window.clearTimeout(timerRef.current); the ref becomes null
clearTimer(ts, ref) == IF ref # 0 THEN {t \in ts : t.id # ref} ELSE ts

\* variant: the controller is forgotten without being aborted
abortInFlight_forgetOnly(fs, ctl) == fs

\* abortInFlight(): activeControllerRef.current.abort()
abortInFlight(fs, ctl) ==
  IF ctl # 0
    THEN {IF f.id = ctl THEN [f EXCEPT !.aborted = TRUE] ELSE f : f \in fs}
    ELSE fs

\* window.setTimeout returns a handle not in use
newTimerId(ts) == CHOOSE i \in 1..(Cardinality(ts) + 1) : \A t \in ts : t.id # i

\* variant: the response is applied without looking at the generation
isStale_unguarded(f) == FALSE

\* the guards of poll's try / catch / finally
isStale(f) == f.gen \in cancelled \/ f.gen # generationRef

\* variant: the catch block reports every rejection
isDiscardedFailure_reportAll(f) == FALSE

isDiscardedFailure(f) == f.gen \in cancelled \/ f.aborted \/ f.gen # generationRef

\* variant: the retry is armed without looking at completedRef
shouldRearm_ignoreCompleted(f, completed) == f.gen \notin cancelled /\ f.gen = generationRef

shouldRearm(f, completed) == f.gen \notin cancelled /\ ~completed /\ f.gen = generationRef

\* variant: no fallback text for a rejection that is not an Error
errorMessage_noFallback(err) == IF err.isError THEN err.message ELSE NULL

\* err instanceof Error ? err.message : 'Failed to fetch session'
errorMessage(err) == IF err.isError THEN err.message ELSE "Failed to fetch session"

\* the spec's completion predicate, used by the properties only
IsTerminal(payload) ==
  /\ payload # NoData
  /\ payload.session.finished_at \notin {NULL, ""}
  /\ payload.session.analyzer_ready

Idle == Falsy(sessionId) \/ Falsy(apiKey)

TypeOK ==
  /\ sessionId \in SessionIdProps
  /\ apiKey \in ApiKeyProps
  /\ data \in Envelopes \cup {NoData}
  /\ completedRef \in BOOLEAN
  /\ generationRef \in 0..MaxGen
  /\ pollCount \in 0..MaxPolls

(***************************************************************************)
(* Init: the first render, before the effect has run                       *)
(***************************************************************************)
HookInit(sids, keys) ==
  /\ sessionId \in sids
  /\ apiKey \in keys
  /\ data = NoData
  /\ error = NULL
  /\ timerRef = 0
  /\ completedRef = FALSE
  /\ generationRef = 0
  /\ activeControllerRef = 0
  /\ cancelled = {}
  /\ timers = {}
  /\ fetches = {}
  /\ pollCount = 0
  /\ dataGen = 0
  /\ errorGen = 0
  /\ failStreak = 0
  /\ droppedStale = FALSE
  /\ droppedFailure = FALSE
  /\ pollTerminal = FALSE
  /\ injectedTerminal = FALSE

(***************************************************************************)
(* The effect: cleanup of the previous run (if any), then the body         *)
(***************************************************************************)
\* variant: the effect body does not reset completedRef
runEffect_keepCompleted(sid, key) ==
  LET gen == generationRef + 1
      aborted == abortInFlight(fetches, activeControllerRef)
      idle == Falsy(sid) \/ Falsy(key)
  IN /\ generationRef < MaxGen
     /\ idle \/ pollCount < MaxPolls
     /\ sessionId' = sid
     /\ apiKey' = key
     /\ cancelled' = IF generationRef = 0 THEN cancelled ELSE cancelled \cup {generationRef}
     /\ generationRef' = gen
     /\ timers' = clearTimer(timers, timerRef)
     /\ timerRef' = 0
     /\ completedRef' = completedRef
     /\ failStreak' = 0
     /\ pollTerminal' = FALSE
     /\ injectedTerminal' = FALSE
     /\ droppedStale' = droppedStale
     /\ droppedFailure' = droppedFailure
     /\ IF idle
          THEN /\ data' = NoData
               /\ error' = NULL
               /\ dataGen' = 0
               /\ errorGen' = 0
               /\ fetches' = aborted
               /\ activeControllerRef' = 0
               /\ pollCount' = pollCount
          ELSE /\ UNCHANGED <<data, error, dataGen, errorGen>>
               /\ pollCount' = pollCount + 1
               /\ activeControllerRef' = pollCount + 1
               /\ fetches' = aborted \cup
                    {[id |-> pollCount + 1, gen |-> gen, sid |-> sid, key |-> key,
                      aborted |-> FALSE]}

runEffect(sid, key) ==
  LET gen == generationRef + 1
      aborted == abortInFlight(fetches, activeControllerRef)
      idle == Falsy(sid) \/ Falsy(key)
  IN /\ generationRef < MaxGen
     /\ idle \/ pollCount < MaxPolls
     /\ sessionId' = sid
     /\ apiKey' = key
     /\ cancelled' = IF generationRef = 0 THEN cancelled ELSE cancelled \cup {generationRef}
     /\ generationRef' = gen
     /\ timers' = clearTimer(timers, timerRef)
     /\ timerRef' = 0
     /\ completedRef' = FALSE
     /\ failStreak' = 0
     /\ pollTerminal' = FALSE
     /\ injectedTerminal' = FALSE
     /\ droppedStale' = droppedStale
     /\ droppedFailure' = droppedFailure
     /\ IF idle
          THEN /\ data' = NoData
               /\ error' = NULL
               /\ dataGen' = 0
               /\ errorGen' = 0
               /\ fetches' = aborted
               /\ activeControllerRef' = 0
               /\ pollCount' = pollCount
          ELSE /\ UNCHANGED <<data, error, dataGen, errorGen>>
               /\ pollCount' = pollCount + 1
               /\ activeControllerRef' = pollCount + 1
               /\ fetches' = aborted \cup
                    {[id |-> pollCount + 1, gen |-> gen, sid |-> sid, key |-> key,
                      aborted |-> FALSE]}

\* the first effect run after mounting
Mount ==
  /\ generationRef = 0
  /\ runEffect(sessionId, apiKey)

\* the parent renders the hook with another (sessionId, apiKey)
ChangePair(sid, key) ==
  /\ generationRef > 0
  /\ <<sid, key>> # <<sessionId, apiKey>>
  /\ runEffect(sid, key)

(***************************************************************************)
(* poll                                                                    *)
(***************************************************************************)
\* finally { if (...) { clearTimer(); timerRef.current = setTimeout(poll, ...) } }
\* ts, ref: the timers and timerRef.current as the try / catch block left them
pollFinally(f, completed, ts, ref) ==
  IF shouldRearm(f, completed)
    THEN LET cleared == clearTimer(ts, ref)
             id == newTimerId(cleared)
         IN /\ timers' = cleared \cup
                 {[id |-> id, gen |-> f.gen, sid |-> f.sid, key |-> f.key]}
            /\ timerRef' = id
    ELSE /\ timers' = ts
         /\ timerRef' = ref

\* the awaited getSession resolves
FetchResolve(f, response) ==
  /\ f \in fetches
  /\ response \in Responses(f.sid)
  /\ fetches' = fetches \ {f}
  /\ UNCHANGED <<sessionId, apiKey, generationRef, activeControllerRef, cancelled, pollCount,
                 errorGen, injectedTerminal, droppedFailure>>
  /\ IF isStale(f)
       THEN /\ UNCHANGED <<data, error, completedRef, dataGen, failStreak, pollTerminal>>
            /\ droppedStale' = TRUE
            /\ pollFinally(f, completedRef, timers, timerRef)
       ELSE /\ data' = response
            /\ error' = NULL
            /\ dataGen' = f.gen
            /\ failStreak' = 0
            /\ droppedStale' = droppedStale
            /\ pollTerminal' = (pollTerminal \/ IsTerminal(response))
            /\ IF isComplete(response)
                 THEN /\ completedRef' = TRUE
                      /\ pollFinally(f, TRUE, clearTimer(timers, timerRef), 0)
                 ELSE /\ completedRef' = completedRef
                      /\ pollFinally(f, completedRef, timers, timerRef)

\* variant: a reported failure also drops the exposed snapshot
FetchReject_dropSnapshot(f, err) ==
  /\ f \in fetches
  /\ err \in Failures
  /\ fetches' = fetches \ {f}
  /\ UNCHANGED <<sessionId, apiKey, completedRef, generationRef, activeControllerRef,
                 cancelled, pollCount, dataGen, pollTerminal, injectedTerminal>>
  /\ IF isDiscardedFailure(f)
       THEN /\ UNCHANGED <<data, error, errorGen, failStreak>>
            /\ droppedStale' = TRUE
            /\ droppedFailure' = TRUE
       ELSE /\ data' = NoData
            /\ error' = errorMessage(err)
            /\ errorGen' = f.gen
            /\ failStreak' = failStreak + 1
            /\ droppedStale' = droppedStale
            /\ droppedFailure' = droppedFailure
  /\ pollFinally(f, completedRef, timers, timerRef)

\* the awaited getSession rejects
FetchReject(f, err) ==
  /\ f \in fetches
  /\ err \in Failures
  /\ fetches' = fetches \ {f}
  /\ UNCHANGED <<sessionId, apiKey, data, completedRef, generationRef, activeControllerRef,
                 cancelled, pollCount, dataGen, pollTerminal, injectedTerminal>>
  /\ IF isDiscardedFailure(f)
       THEN /\ UNCHANGED <<error, errorGen, failStreak>>
            /\ droppedStale' = TRUE
            /\ droppedFailure' = TRUE
       ELSE /\ error' = errorMessage(err)
            /\ errorGen' = f.gen
            /\ failStreak' = failStreak + 1
            /\ droppedStale' = droppedStale
            /\ droppedFailure' = droppedFailure
  /\ pollFinally(f, completedRef, timers, timerRef)

\* the retry timer fires and runs the poll closure it holds
TimerFire(t) ==
  /\ t \in timers
  /\ pollCount < MaxPolls
  /\ timers' = timers \ {t}
  /\ pollCount' = pollCount + 1
  /\ activeControllerRef' = pollCount + 1
  /\ fetches' = fetches \cup
       {[id |-> pollCount + 1, gen |-> t.gen, sid |-> t.sid, key |-> t.key, aborted |-> FALSE]}
  /\ UNCHANGED <<sessionId, apiKey, data, error, timerRef, completedRef, generationRef,
                 cancelled, hist>>

(***************************************************************************)
(* setData returned by the hook                                            *)
(***************************************************************************)
\* variant: a plain state setter, without the terminal check
replaceData_plainSetter(next) ==
  LET resolved == IF next.fn THEN data ELSE next.value
  IN /\ data' = resolved
     /\ dataGen' = IF next.fn THEN dataGen ELSE 0
     /\ injectedTerminal' = (injectedTerminal \/ IsTerminal(resolved))
     /\ UNCHANGED <<completedRef, timers, timerRef>>
     /\ UNCHANGED <<sessionId, apiKey, error, generationRef, activeControllerRef, cancelled,
                    fetches, pollCount, errorGen, failStreak, droppedStale, droppedFailure,
                    pollTerminal>>

replaceData(next) ==
  LET resolved == IF next.fn THEN data ELSE next.value
  IN /\ data' = resolved
     /\ dataGen' = IF next.fn THEN dataGen ELSE 0
     /\ injectedTerminal' = (injectedTerminal \/ IsTerminal(resolved))
     /\ IF isComplete(resolved)
          THEN /\ completedRef' = TRUE
               /\ timers' = clearTimer(timers, timerRef)
               /\ timerRef' = 0
          ELSE UNCHANGED <<completedRef, timers, timerRef>>
     /\ UNCHANGED <<sessionId, apiKey, error, generationRef, activeControllerRef, cancelled,
                    fetches, pollCount, errorGen, failStreak, droppedStale, droppedFailure,
                    pollTerminal>>

ReplaceData(next) ==
  /\ generationRef > 0
  /\ replaceData(next)

(***************************************************************************)
(* Values of the reconciler                                                *)
(***************************************************************************)
\* a JavaScript value of an untyped slot: a string (a sequence of characters),
\* undefined / null (alike in every use below), or a value of another type
Str(chars) == [t |-> "string", v |-> chars]
Undefined == [t |-> "undefined", v |-> <<>>]
NotAString == [t |-> "number", v |-> <<>>]

\* an absent tri-state field
UNDEFINED == "<undefined>"

\* MetricTriState
MetricTriStates == {"OK", "FAIL", "INCOMPATIBILITY", "NOT_EVALUATED"}

\* what a tri-state slot can hold at run time: nothing, a tri-state, or
\* a string the type does not allow
TriStateInputs == MetricTriStates \cup {UNDEFINED, "UNKNOWN"}

Whitespace == {" "}

\* String.prototype.trim
RECURSIVE trimStart(_)
trimStart(chars) ==
  IF chars # <<>> /\ Head(chars) \in Whitespace THEN trimStart(Tail(chars)) ELSE chars

RECURSIVE trimEnd(_)
trimEnd(chars) ==
  IF chars # <<>> /\ chars[Len(chars)] \in Whitespace
    THEN trimEnd(SubSeq(chars, 1, Len(chars) - 1))
    ELSE chars

trim(chars) == trimEnd(trimStart(chars))

\* String.prototype.toLowerCase on the characters in use
lowerChar(c) ==
  CASE c = "L" -> "l"
    [] c = "G" -> "g"
    [] c = "S" -> "s"
    [] OTHER -> c

toLowerCase(chars) == [i \in 1..Len(chars) |-> lowerChar(chars[i])]

LG == <<"L", "G">>
Samsung == <<"S", "a", "m", "s", "u", "n", "g">>

\* tv_brand_user / tv_brand_log as received
BrandInputs ==
  {Undefined, Str(<<>>), Str(<<" ">>), Str(LG), Str(<<"l", "g">>), Str(<<"L", "G", " ">>),
   Str(Samsung)}

BRAND_STEP == "question_tv_brand_ui"

\* failed_steps?: string[]
NoSteps == [isArray |-> FALSE, items |-> <<>>]
Steps(items) == [isArray |-> TRUE, items |-> items]

\* evidence?: Record<string, unknown>
NoEvidence ==
  [defined |-> FALSE, tv_brand_user |-> Undefined, tv_brand_detected |-> Undefined,
   tv_brand_log |-> Undefined]
Evidence(user, detected, log) ==
  [defined |-> TRUE, tv_brand_user |-> user, tv_brand_detected |-> detected,
   tv_brand_log |-> log]

\* session.analysis_result
NoPayload ==
  [defined |-> FALSE, failed_steps |-> NoSteps, evidence |-> NoEvidence,
   volume_status |-> UNDEFINED, osd_status |-> UNDEFINED]
Payload(steps, evidence, volume, osd) ==
  [defined |-> TRUE, failed_steps |-> steps, evidence |-> evidence,
   volume_status |-> volume, osd_status |-> osd]

\* the analysisDetails argument
NoDetails == [defined |-> FALSE, failed_steps |-> NoSteps, evidence |-> NoEvidence]
Details(steps, evidence) == [defined |-> TRUE, failed_steps |-> steps, evidence |-> evidence]

\* TvAutoSyncSession, the fields the reconciler reads
Session(ready, overall, mismatch, user, log, volIssue, osdIssue, brand, volume, osd, payload) ==
  [analyzer_ready |-> ready, overall_status |-> overall, brand_mismatch |-> mismatch,
   tv_brand_user |-> user, tv_brand_log |-> log,
   has_volume_issue |-> volIssue, has_osd_issue |-> osdIssue,
   brand_status |-> brand, volume_status |-> volume, osd_status |-> osd,
   analysis_result |-> payload]

\* the reconciler has no session yet
NoSession ==
  Session(FALSE, "PENDING", FALSE, Undefined, Undefined, FALSE, FALSE,
          UNDEFINED, UNDEFINED, UNDEFINED, NoPayload)

NoResult == [none |-> TRUE]

\* QuicksetSessionSummary has not rendered
NoSummary == [none |-> TRUE]

(***************************************************************************)
(* The reconciler                                                          *)
(***************************************************************************)
\* variant: readiness read from finished_at instead of analyzer_ready
isAnalyzerResultReady_finishedAt(s) ==
  ~Falsy(s.finished_at) \/ s.overall_status = "PASS" \/ s.overall_status = "FAIL"

\* variant: only a verdict makes a session ready
isAnalyzerResultReady_verdictOnly(s) ==
  s.overall_status = "PASS" \/ s.overall_status = "FAIL"

isAnalyzerResultReady(s) ==
  s.analyzer_ready = TRUE \/ s.overall_status = "PASS" \/ s.overall_status = "FAIL"

normalizeBrandValue(value) ==
  IF value.t # "string"
    THEN Undefined
    ELSE LET trimmed == trim(value.v)
         IN IF Len(trimmed) > 0 THEN Str(trimmed) ELSE Undefined

\* !brand for a string | null
noBrand(brand) == brand.t # "string" \/ Len(brand.v) = 0

\* variant: the user brand is compared with itself
brandsAreDifferent_selfCompare(userBrand, logBrand) ==
  IF noBrand(userBrand) \/ noBrand(logBrand)
    THEN FALSE
    ELSE toLowerCase(userBrand.v) # toLowerCase(userBrand.v)

brandsAreDifferent(userBrand, logBrand) ==
  IF noBrand(userBrand) \/ noBrand(logBrand)
    THEN FALSE
    ELSE toLowerCase(userBrand.v) # toLowerCase(logBrand.v)

isMetricTriState(value) ==
  value = "OK" \/ value = "FAIL" \/ value = "INCOMPATIBILITY" \/ value = "NOT_EVALUATED"

\* variant: the readiness rule is missing from the chain
resolveMetricStatus_noReadyRule(sessionValue, analysisValue, analyzerReady, fallbackIssue) ==
  IF isMetricTriState(sessionValue) THEN sessionValue
  ELSE IF isMetricTriState(analysisValue) THEN analysisValue
  ELSE IF fallbackIssue THEN "FAIL" ELSE "OK"

\* variant: the readiness rule comes before the analysis value
resolveMetricStatus_readyFirst(sessionValue, analysisValue, analyzerReady, fallbackIssue) ==
  IF isMetricTriState(sessionValue) THEN sessionValue
  ELSE IF ~analyzerReady THEN "NOT_EVALUATED"
  ELSE IF isMetricTriState(analysisValue) THEN analysisValue
  ELSE IF fallbackIssue THEN "FAIL" ELSE "OK"

\* variant: a ready metric without a tri-state is OK whatever the issue flag
resolveMetricStatus_okFallback(sessionValue, analysisValue, analyzerReady, fallbackIssue) ==
  IF isMetricTriState(sessionValue) THEN sessionValue
  ELSE IF isMetricTriState(analysisValue) THEN analysisValue
  ELSE IF ~analyzerReady THEN "NOT_EVALUATED"
  ELSE "OK"

resolveMetricStatus(sessionValue, analysisValue, analyzerReady, fallbackIssue) ==
  IF isMetricTriState(sessionValue) THEN sessionValue
  ELSE IF isMetricTriState(analysisValue) THEN analysisValue
  ELSE IF ~analyzerReady THEN "NOT_EVALUATED"
  ELSE IF fallbackIssue THEN "FAIL" ELSE "OK"

\* variant: the second operand is preferred
nullish_preferSecond(a, b) == IF b.t = "undefined" THEN a ELSE b

\* a ?? b
nullish(a, b) == IF a.t = "undefined" THEN b ELSE a

\* variant: only the first element is looked at
includes_firstOnly(items, step) == Len(items) > 0 /\ items[1] = step

\* failedSteps.includes(step)
includes(items, step) == \E i \in 1..Len(items) : items[i] = step

deriveMetricStatuses(s, details) ==
  LET analyzerReady == isAnalyzerResultReady(s)
      analysisResultPayload == s.analysis_result
      payloadFailedSteps == analysisResultPayload.failed_steps
      analysisFailedSteps == details.failed_steps
      failedSteps ==
        IF payloadFailedSteps.isArray THEN payloadFailedSteps.items
        ELSE IF analysisFailedSteps.isArray THEN analysisFailedSteps.items
        ELSE <<>>
      brandStepFailed == includes(failedSteps, BRAND_STEP)
      evidenceFromPayload == analysisResultPayload.evidence
      evidenceFromDetails == details.evidence
      sessionUserBrand == normalizeBrandValue(s.tv_brand_user)
      sessionLogBrand == normalizeBrandValue(s.tv_brand_log)
      evidenceUserBrand ==
        normalizeBrandValue(
          nullish(evidenceFromPayload.tv_brand_user, evidenceFromDetails.tv_brand_user))
      evidenceLogBrand ==
        normalizeBrandValue(
          nullish(evidenceFromPayload.tv_brand_detected,
            nullish(evidenceFromPayload.tv_brand_log,
              nullish(evidenceFromDetails.tv_brand_detected,
                      evidenceFromDetails.tv_brand_log))))
      preferredUserBrand == nullish(sessionUserBrand, evidenceUserBrand)
      preferredLogBrand == nullish(sessionLogBrand, evidenceLogBrand)
      hasSessionPairMismatch == brandsAreDifferent(sessionUserBrand, sessionLogBrand)
      hasDerivedMismatch ==
        ~hasSessionPairMismatch /\ brandsAreDifferent(preferredUserBrand, preferredLogBrand)
      hasBrandMismatch ==
        s.brand_mismatch = TRUE \/ brandStepFailed \/ hasSessionPairMismatch
          \/ hasDerivedMismatch
      brandStatus ==
        IF ~analyzerReady THEN "NOT_EVALUATED"
        ELSE IF hasBrandMismatch THEN "INCOMPATIBILITY" ELSE "OK"
      volumeStatus ==
        resolveMetricStatus(s.volume_status, analysisResultPayload.volume_status,
                            analyzerReady, s.has_volume_issue)
      osdStatus ==
        resolveMetricStatus(s.osd_status, analysisResultPayload.osd_status,
                            analyzerReady, s.has_osd_issue)
  IN [analyzerReady |-> analyzerReady,
      brandStatus |-> brandStatus,
      volumeStatus |-> volumeStatus,
      osdStatus |-> osdStatus,
      preferredUserBrand |-> preferredUserBrand,
      preferredLogBrand |-> preferredLogBrand,
      hasBrandMismatch |-> hasBrandMismatch]

\* a caller passes (session, analysisDetails) to the reconciler
Derive ==
  /\ result = NoResult
  /\ result' = deriveMetricStatuses(session, analysisDetails)
  /\ UNCHANGED <<session, analysisDetails>>

(***************************************************************************)
(* QuickSetRunner                                                          *)
(***************************************************************************)
\* RCU_SCENARIOS
Scenarios == {"TV_AUTO_SYNC", "LIVE_BUTTON_MAPPING"}

\* INITIAL_SESSION_HISTORY
INITIAL_SESSION_HISTORY == [scenario \in Scenarios |-> NULL]

\* overall_status as received; the page upper-cases it
PageStatuses == {"AWAITING_INPUT", "PASS", "inconclusive"}

\* TvAutoSyncSessionResponse, reduced to the fields the page reads;
\* pending stands for quickset_session?.pending_question being set
PageEnvelope(sid, fin, overall, pending) ==
  [session |-> [session_id |-> sid, finished_at |-> fin, overall_status |-> overall],
   pending_question |-> pending]

PageResponses(sid) ==
  {PageEnvelope(sid, fin, overall, pending) :
     fin \in {NULL, "2025-12-08T06:45:55Z"}, overall \in PageStatuses, pending \in BOOLEAN}

\* QuickSetSession, the declared result of answerQuestion: it has no session
\* and no quickset_session field
QuickSetSession(sid) == [session_id |-> sid, state |-> "running"]

\* what answerQuestion resolves with: the declared type, or, the body being
\* unvalidated JSON, an envelope of the session answered
AnswerResponses(sid) == PageResponses(sid) \cup {QuickSetSession(sid)}

\* analyzerSession = sessionData?.session ?? null is not null
hasAnalyzerSession(envelope) == envelope # NoData /\ "session" \in DOMAIN envelope

\* pendingQuestion = runtimeSession?.pending_question ?? null is not null
hasPendingQuestion(envelope) ==
  envelope # NoData /\ "pending_question" \in DOMAIN envelope /\ envelope.pending_question

\* String.prototype.toUpperCase on the statuses in use
toUpperCase(value) == IF value = "inconclusive" THEN "INCONCLUSIVE" ELSE value

isFinalAnalyzerStatus(value) ==
  IF Falsy(value) THEN FALSE ELSE toUpperCase(value) \in {"PASS", "FAIL", "INCONCLUSIVE"}

analyzerFinished(envelope) ==
  /\ hasAnalyzerSession(envelope)
  /\ ~Falsy(envelope.session.finished_at)
       \/ isFinalAnalyzerStatus(envelope.session.overall_status)

\* the completion banner effect: the banner the render settles on
bannerEffect(selected, envelope, banner) ==
  IF Falsy(selected) THEN NULL
  ELSE IF analyzerFinished(envelope) THEN selected
  ELSE IF banner = selected THEN NULL
  ELSE banner

\* completionBanner?.sessionId
bannerSessionId(banner) == IF banner = NULL THEN UNDEFINED ELSE banner

\* variant: the banner is rendered whenever there is one
showCompletionBanner_anyBanner(banner, selected) == banner # NULL

\* completionBanner?.sessionId === selectedSessionId && <div>Test completed ...
showCompletionBanner(banner, selected) == bannerSessionId(banner) = selected

\* renderQuicksetSummary: the summary, or one of its two hints
showSummary(selected, envelope) == ~Falsy(selected) /\ hasAnalyzerSession(envelope)

PageInit ==
  /\ selectedScenarioId = "TV_AUTO_SYNC"
  /\ selectedSessionId = NULL
  /\ lastSessionByScenario = INITIAL_SESSION_HISTORY
  /\ completionBanner = NULL
  /\ sessionData = NoData
  /\ pendingRun = NULL
  /\ pendingAnswer = NULL

\* handleStartScenario up to the awaited runScenario
handleStartScenario ==
  /\ pendingRun = NULL
  /\ pendingRun' = selectedScenarioId
  /\ UNCHANGED <<selectedScenarioId, selectedSessionId, lastSessionByScenario,
                 completionBanner, sessionData, pendingAnswer>>

\* runScenario resolves with a session id
runScenarioResolves(sid) ==
  /\ pendingRun # NULL
  /\ lastSessionByScenario' = [lastSessionByScenario EXCEPT ![pendingRun] = sid]
  /\ selectedSessionId' = sid
  /\ sessionData' = NoData
  /\ completionBanner' = bannerEffect(sid, NoData, NULL)
  /\ pendingRun' = NULL
  /\ UNCHANGED <<selectedScenarioId, pendingAnswer>>

\* runScenario rejects
runScenarioRejects ==
  /\ pendingRun # NULL
  /\ pendingRun' = NULL
  /\ UNCHANGED <<selectedScenarioId, selectedSessionId, lastSessionByScenario,
                 completionBanner, sessionData, pendingAnswer>>

handleScenarioSelect(nextScenario) ==
  LET nextSession == lastSessionByScenario[nextScenario]
      cleared == IF Falsy(nextSession) THEN NULL ELSE completionBanner
  IN /\ nextScenario # selectedScenarioId
     /\ selectedScenarioId' = nextScenario
     /\ selectedSessionId' = nextSession
     /\ sessionData' = NoData
     /\ completionBanner' = bannerEffect(nextSession, NoData, cleared)
     /\ UNCHANGED <<lastSessionByScenario, pendingRun, pendingAnswer>>

\* the hook exposes a response polled for the selected session
pollExposes(response) ==
  /\ ~Falsy(selectedSessionId)
  /\ response \in PageResponses(selectedSessionId)
  /\ sessionData' = response
  /\ completionBanner' = bannerEffect(selectedSessionId, response, completionBanner)
  /\ UNCHANGED <<selectedScenarioId, selectedSessionId, lastSessionByScenario, pendingRun,
                 pendingAnswer>>

\* submitAnswer up to the awaited answerQuestion
submitAnswer ==
  /\ ~Falsy(selectedSessionId)
  /\ hasPendingQuestion(sessionData)
  /\ pendingAnswer = NULL
  /\ pendingAnswer' = selectedSessionId
  /\ UNCHANGED <<selectedScenarioId, selectedSessionId, lastSessionByScenario,
                 completionBanner, sessionData, pendingRun>>

\* answerQuestion resolves: setSessionEnvelope(updated), whatever is selected now
answerQuestionResolves(updated) ==
  /\ pendingAnswer # NULL
  /\ updated \in AnswerResponses(pendingAnswer)
  /\ sessionData' = updated
  /\ completionBanner' = bannerEffect(selectedSessionId, updated, completionBanner)
  /\ pendingAnswer' = NULL
  /\ UNCHANGED <<selectedScenarioId, selectedSessionId, lastSessionByScenario, pendingRun>>

\* answerQuestion rejects
answerQuestionRejects ==
  /\ pendingAnswer # NULL
  /\ pendingAnswer' = NULL
  /\ UNCHANGED <<selectedScenarioId, selectedSessionId, lastSessionByScenario,
                 completionBanner, sessionData, pendingRun>>

(***************************************************************************)
(* Inputs of the reconciler                                                *)
(***************************************************************************)
OverallStatuses == {"PENDING", "PASS", "FAIL"}

\* tri-state resolution: every combination of the session-level fields
PayloadTriStates == {UNDEFINED, "FAIL", "UNKNOWN"}

MetricPayloads ==
  {NoPayload} \cup
    {Payload(NoSteps, NoEvidence, v, o) : v \in PayloadTriStates, o \in PayloadTriStates}

MetricSessions ==
  {Session(ready, overall, mismatch, Undefined, Undefined, volIssue, osdIssue,
           brand, volume, osd, payload) :
     ready \in BOOLEAN, overall \in OverallStatuses, mismatch \in BOOLEAN,
     volIssue \in BOOLEAN, osdIssue \in BOOLEAN,
     brand \in TriStateInputs, volume \in TriStateInputs, osd \in TriStateInputs,
     payload \in MetricPayloads}

\* brand rule: every combination of the session-level brands
BrandEvidence ==
  {NoEvidence,
   Evidence(Str(<<"l", "g">>), Undefined, Str(Samsung)),
   Evidence(Undefined, Str(LG), Str(Samsung)),
   Evidence(Str(Samsung), NotAString, Str(LG))}

BrandPayloads ==
  {NoPayload, Payload(Steps(<<>>), NoEvidence, UNDEFINED, UNDEFINED),
   Payload(Steps(<<"question_tv_osd_seen", BRAND_STEP>>), NoEvidence, UNDEFINED, UNDEFINED)}
    \cup {Payload(NoSteps, e, UNDEFINED, UNDEFINED) : e \in BrandEvidence \ {NoEvidence}}

BrandDetails ==
  {NoDetails, Details(Steps(<<BRAND_STEP>>), NoEvidence)}
    \cup {Details(NoSteps, e) : e \in BrandEvidence \ {NoEvidence}}

BrandSessions ==
  {Session(ready, overall, mismatch, user, log, FALSE, FALSE, brand, UNDEFINED, UNDEFINED,
           payload) :
     ready \in BOOLEAN, overall \in {"PENDING", "PASS"}, mismatch \in BOOLEAN,
     user \in BrandInputs, log \in BrandInputs, brand \in {UNDEFINED, "OK", "FAIL"},
     payload \in BrandPayloads}

(***************************************************************************)
(* Specifications                                                          *)
(***************************************************************************)
\* the polling driver, no reconciler call
Init ==
  /\ HookInit(SessionIdProps, ApiKeyProps)
  /\ session = NoSession
  /\ analysisDetails = NoDetails
  /\ result = NoResult
  /\ timeline = <<>>
  /\ summary = NoSummary
  /\ PageInit

Next ==
  \/ Mount /\ UNCHANGED <<reconcilerVars, summaryVars, pageVars>>
  \/ \E sid \in SessionIdProps, key \in ApiKeyProps :
       ChangePair(sid, key) /\ UNCHANGED <<reconcilerVars, summaryVars, pageVars>>
  \/ \E f \in fetches : \E response \in Responses(f.sid) :
       FetchResolve(f, response) /\ UNCHANGED <<reconcilerVars, summaryVars, pageVars>>
  \/ \E f \in fetches : \E err \in Failures :
       FetchReject(f, err) /\ UNCHANGED <<reconcilerVars, summaryVars, pageVars>>
  \/ \E t \in timers : TimerFire(t) /\ UNCHANGED <<reconcilerVars, summaryVars, pageVars>>
  \/ \E next \in SetStateActions : ReplaceData(next) /\ UNCHANGED <<reconcilerVars, summaryVars, pageVars>>

Spec == Init /\ [][Next]_vars

\* the reconciler on the tri-state inputs, no hook mounted
InitMetrics ==
  /\ HookInit({NULL}, {NULL})
  /\ session \in MetricSessions
  /\ analysisDetails = NoDetails
  /\ result = NoResult
  /\ timeline = <<>>
  /\ summary = NoSummary
  /\ PageInit

NextMetrics == Derive /\ UNCHANGED <<hookVars, summaryVars, pageVars>>

SpecMetrics == InitMetrics /\ [][NextMetrics]_vars

\* the reconciler on the brand inputs, no hook mounted
InitBrand ==
  /\ HookInit({NULL}, {NULL})
  /\ session \in BrandSessions
  /\ analysisDetails \in BrandDetails
  /\ result = NoResult
  /\ timeline = <<>>
  /\ summary = NoSummary
  /\ PageInit

NextBrand == Derive /\ UNCHANGED <<hookVars, summaryVars, pageVars>>

SpecBrand == InitBrand /\ [][NextBrand]_vars

\* tri-state sources: the session, its analysis_result, and the details of the
\* analysis_summary row when they carry the same fields
EvidenceTriStates == {UNDEFINED, "OK", "FAIL"}

EvidencePayloads ==
  {NoPayload,
   Payload(NoSteps, NoEvidence, "FAIL", UNDEFINED),
   Payload(NoSteps, NoEvidence, "UNKNOWN", "INCOMPATIBILITY")}

EvidenceSessions ==
  {Session(ready, overall, FALSE, Undefined, Undefined, volIssue, osdIssue,
           UNDEFINED, volume, UNDEFINED, payload) :
     ready \in BOOLEAN, overall \in {"PENDING", "PASS"},
     volIssue \in BOOLEAN, osdIssue \in BOOLEAN,
     volume \in {UNDEFINED, "INCOMPATIBILITY"}, payload \in EvidencePayloads}

EvidenceDetails ==
  {NoDetails @@ [volume_status |-> UNDEFINED, osd_status |-> UNDEFINED]} \cup
    {Details(NoSteps, NoEvidence) @@ [volume_status |-> v, osd_status |-> o] :
       v \in EvidenceTriStates, o \in EvidenceTriStates}

InitEvidence ==
  /\ HookInit({NULL}, {NULL})
  /\ session \in EvidenceSessions
  /\ analysisDetails \in EvidenceDetails
  /\ result = NoResult
  /\ timeline = <<>>
  /\ summary = NoSummary
  /\ PageInit

NextEvidence == Derive /\ UNCHANGED <<hookVars, summaryVars, pageVars>>

SpecEvidence == InitEvidence /\ [][NextEvidence]_vars

\* readiness: every AnalyzerStepStatus, with and without finished_at
AnalyzerStepStatuses == {"INFO", "PASS", "FAIL", "AWAITING_INPUT", "PENDING"}

ReadinessSessions ==
  {Session(ready, overall, FALSE, Undefined, Undefined, volIssue, osdIssue,
           UNDEFINED, UNDEFINED, UNDEFINED, NoPayload) @@ [finished_at |-> finished] :
     ready \in BOOLEAN, overall \in AnalyzerStepStatuses, finished \in FinishedAtValues,
     volIssue \in BOOLEAN, osdIssue \in BOOLEAN}

InitReadiness ==
  /\ HookInit({NULL}, {NULL})
  /\ session \in ReadinessSessions
  /\ analysisDetails = NoDetails
  /\ result = NoResult
  /\ timeline = <<>>
  /\ summary = NoSummary
  /\ PageInit

NextReadiness == Derive /\ UNCHANGED <<hookVars, summaryVars, pageVars>>

SpecReadiness == InitReadiness /\ [][NextReadiness]_vars

\* the snapshots of one subscription, one after the other: the hook exposes
\* each response it applies (setData) and the page derives the statuses of the
\* exposed session anew
ApplySnapshot(s) ==
  /\ session' = s
  /\ result' = deriveMetricStatuses(s, analysisDetails)
  /\ UNCHANGED analysisDetails

InitSnapshots ==
  /\ HookInit({NULL}, {NULL})
  /\ session = NoSession
  /\ analysisDetails = NoDetails
  /\ result = NoResult
  /\ timeline = <<>>
  /\ summary = NoSummary
  /\ PageInit

NextSnapshots ==
  \E s \in ReadinessSessions : ApplySnapshot(s) /\ UNCHANGED <<hookVars, summaryVars, pageVars>>

SpecSnapshots == InitSnapshots /\ [][NextSnapshots]_vars

(***************************************************************************)
(* QuicksetSessionSummary                                                  *)
(***************************************************************************)
\* bound: rows of a timeline
MaxTimeline == 2

\* JSON true and false in a slot that may also be absent
JSON_TRUE == "<true>"
JSON_FALSE == "<false>"

\* Boolean(value) of such a slot
Boolean(value) == value = JSON_TRUE

\* TvAutoSyncSession with the has_failure field the summary badge reads
SummarySession(ready, overall, failure, brand) ==
  Session(ready, overall, FALSE, Undefined, Undefined, FALSE, FALSE,
          brand, UNDEFINED, UNDEFINED, NoPayload) @@ [has_failure |-> failure]

\* QuicksetAnalysisDetails, the fields the summary reads
SummaryDetails(tester, log, conflict) ==
  Details(NoSteps, NoEvidence) @@
    [tester_verdict |-> tester, log_verdict |-> log, conflict_tester_vs_logs |-> conflict]

\* const analysisDetails = undefined
NoSummaryDetails ==
  NoDetails @@
    [tester_verdict |-> UNDEFINED, log_verdict |-> UNDEFINED,
     conflict_tester_vs_logs |-> UNDEFINED]

\* TvAutoSyncTimelineEvent
TimelineEvent(name, details) == [name |-> name, details |-> details]

\* variant: has_failure is not consulted
deriveUiStatusFromAnalyzer_ignoreFailure(s) ==
  LET ready == isAnalyzerResultReady(s)
      status ==
        IF ~ready THEN "pending"
        ELSE IF s.overall_status = "PASS" THEN "pass"
        ELSE "fail"
  IN [status |-> status,
      label |-> IF status = "pending" THEN "PENDING"
                ELSE IF status = "pass" THEN "PASS" ELSE "FAIL",
      brandMismatch |-> (ready /\ s.brand_mismatch = TRUE)]

deriveUiStatusFromAnalyzer(s) ==
  LET ready == isAnalyzerResultReady(s)
      status ==
        IF ~ready THEN "pending"
        ELSE IF s.overall_status = "PASS" /\ ~s.has_failure THEN "pass"
        ELSE "fail"
  IN [status |-> status,
      label |-> IF status = "pending" THEN "PENDING"
                ELSE IF status = "pass" THEN "PASS" ELSE "FAIL",
      brandMismatch |-> (ready /\ s.brand_mismatch = TRUE)]

\* variant: the session value is taken as it is
asTriState_unchecked(value) == value

asTriState(value) == IF value \in MetricTriStates THEN value ELSE UNDEFINED

formatTriStateLabel(value) == IF value = "NOT_EVALUATED" THEN "NOT EVALUATED YET" ELSE value

\* variant: the last row of that name is taken
timelineStepByName_lastMatch(rows, name) ==
  IF \E i \in 1..Len(rows) : rows[i].name = name
    THEN CHOOSE i \in 1..Len(rows) :
           rows[i].name = name /\ \A j \in (i + 1)..Len(rows) : rows[j].name # name
    ELSE 0

\* Array.prototype.find: the index of the first row of that name, 0 if none
timelineStepByName(rows, name) ==
  IF \E i \in 1..Len(rows) : rows[i].name = name
    THEN CHOOSE i \in 1..Len(rows) :
           rows[i].name = name /\ \A j \in 1..(i - 1) : rows[j].name # name
    ELSE 0

\* a ?? b on a tri-state slot
nullishTriState(a, b) == IF a # UNDEFINED THEN a ELSE b

\* variant: the conflict block is rendered for failed sessions only
conflictDetected_onFailureOnly(s, details) ==
  Boolean(details.conflict_tester_vs_logs) /\ s.overall_status = "FAIL"

conflictDetected(s, details) == Boolean(details.conflict_tester_vs_logs)

\* what one render of the component shows (metricStatuses prop not passed)
QuicksetSessionSummary(s, rows) ==
  LET analyzerUi == deriveUiStatusFromAnalyzer(s)
      analysisSummaryRow == timelineStepByName(rows, "analysis_summary")
      details ==
        IF analysisSummaryRow # 0 THEN rows[analysisSummaryRow].details ELSE NoSummaryDetails
      derivedMetrics == deriveMetricStatuses(s, details)
      testerVerdict == nullishTriState(details.tester_verdict, "UNKNOWN")
      logVerdict == nullishTriState(details.log_verdict, "UNKNOWN")
      conflict == conflictDetected(s, details)
      telemetryWarning == ~conflict /\ logVerdict = "INCONCLUSIVE"
  IN [analyzerUi |-> analyzerUi,
      badgeLabel |-> analyzerUi.label,
      analyzerReady |-> derivedMetrics.analyzerReady,
      brandTriState |-> nullishTriState(asTriState(s.brand_status), derivedMetrics.brandStatus),
      volumeTriState |-> nullishTriState(asTriState(s.volume_status), derivedMetrics.volumeStatus),
      osdTriState |-> nullishTriState(asTriState(s.osd_status), derivedMetrics.osdStatus),
      brandLabel |->
        formatTriStateLabel(
          nullishTriState(asTriState(s.brand_status), derivedMetrics.brandStatus)),
      volumeLabel |->
        formatTriStateLabel(
          nullishTriState(asTriState(s.volume_status), derivedMetrics.volumeStatus)),
      osdLabel |->
        formatTriStateLabel(
          nullishTriState(asTriState(s.osd_status), derivedMetrics.osdStatus)),
      testerVerdict |-> testerVerdict,
      logVerdict |-> logVerdict,
      conflictDetected |-> conflict,
      telemetryWarning |-> telemetryWarning]

\* React renders the component with the props (session, timeline)
Render ==
  /\ summary = NoSummary
  /\ summary' = QuicksetSessionSummary(session, timeline)
  /\ UNCHANGED timeline

\* props of the summary
SummarySessions ==
  {SummarySession(ready, overall, failure, brand) :
     ready \in BOOLEAN, overall \in OverallStatuses, failure \in BOOLEAN,
     brand \in {UNDEFINED, "FAIL"}}

ConflictFlags == {UNDEFINED, JSON_FALSE, JSON_TRUE}
TesterVerdicts == {UNDEFINED, "PASS", "FAIL"}
LogVerdicts == {UNDEFINED, "INCONCLUSIVE", "FAIL"}

TimelineEvents ==
  {TimelineEvent("analysis_summary", SummaryDetails(tester, log, conflict)) :
     tester \in TesterVerdicts, log \in LogVerdicts, conflict \in ConflictFlags}
  \cup {TimelineEvent("question_tv_volume_changed", SummaryDetails(UNDEFINED, UNDEFINED, UNDEFINED))}

Timelines == UNION {[1..n -> TimelineEvents] : n \in 0..MaxTimeline}

InitSummary ==
  /\ HookInit({NULL}, {NULL})
  /\ session \in SummarySessions
  /\ analysisDetails = NoDetails
  /\ result = NoResult
  /\ timeline \in Timelines
  /\ summary = NoSummary
  /\ PageInit

NextSummary == Render /\ UNCHANGED <<hookVars, reconcilerVars, pageVars>>

SpecSummary == InitSummary /\ [][NextSummary]_vars

\* the overall verdict: every AnalyzerStepStatus with every combination of
\* analyzer_ready, has_failure and brand_mismatch
VerdictSessions ==
  {Session(ready, overall, mismatch, Undefined, Undefined, volIssue, FALSE,
           UNDEFINED, UNDEFINED, UNDEFINED, NoPayload) @@ [has_failure |-> failure] :
     ready \in BOOLEAN, overall \in AnalyzerStepStatuses, mismatch \in BOOLEAN,
     failure \in BOOLEAN, volIssue \in BOOLEAN}

InitVerdict ==
  /\ HookInit({NULL}, {NULL})
  /\ session \in VerdictSessions
  /\ analysisDetails = NoDetails
  /\ result = NoResult
  /\ timeline = <<>>
  /\ summary = NoSummary
  /\ PageInit

NextVerdict == Render /\ UNCHANGED <<hookVars, reconcilerVars, pageVars>>

SpecVerdict == InitVerdict /\ [][NextVerdict]_vars

\* the summary of sessions whose tri-state fields hold a string the type
\* does not allow, at the session level and in analysis_result
MalformedInputs == {UNDEFINED, "OK", "UNKNOWN"}

MalformedPayloads ==
  {NoPayload,
   Payload(NoSteps, NoEvidence, "UNKNOWN", "FAIL"),
   Payload(NoSteps, NoEvidence, "FAIL", "UNKNOWN")}

MalformedSessions ==
  {Session(ready, "PENDING", mismatch, Undefined, Undefined, volIssue, FALSE,
           brand, volume, osd, payload) @@ [has_failure |-> FALSE] :
     ready \in BOOLEAN, mismatch \in BOOLEAN, volIssue \in BOOLEAN,
     brand \in MalformedInputs, volume \in MalformedInputs, osd \in MalformedInputs,
     payload \in MalformedPayloads}

InitMalformed ==
  /\ HookInit({NULL}, {NULL})
  /\ session \in MalformedSessions
  /\ analysisDetails = NoDetails
  /\ result = NoResult
  /\ timeline = <<>>
  /\ summary = NoSummary
  /\ PageInit

NextMalformed == Render /\ UNCHANGED <<hookVars, reconcilerVars, pageVars>>

SpecMalformed == InitMalformed /\ [][NextMalformed]_vars

\* the page, no reconciler call and the hook reduced to sessionData
InitPage ==
  /\ HookInit({NULL}, {NULL})
  /\ session = NoSession
  /\ analysisDetails = NoDetails
  /\ result = NoResult
  /\ timeline = <<>>
  /\ summary = NoSummary
  /\ PageInit

PageStep ==
  \/ handleStartScenario
  \/ \E sid \in SessionIds : runScenarioResolves(sid)
  \/ runScenarioRejects
  \/ \E nextScenario \in Scenarios : handleScenarioSelect(nextScenario)
  \/ \E response \in PageResponses(selectedSessionId) : pollExposes(response)
  \/ submitAnswer
  \/ \E updated \in AnswerResponses(pendingAnswer) : answerQuestionResolves(updated)
  \/ answerQuestionRejects

NextPage == PageStep /\ UNCHANGED <<hookVars, reconcilerVars, summaryVars>>

SpecPage == InitPage /\ [][NextPage]_vars

(***************************************************************************)
(* Properties of the reconciler                                            *)
(***************************************************************************)
Derived == result # NoResult

\* C3 as stated: a session reported not ready has all three statuses
\* NOT_EVALUATED.
C3_NotReadyAsStated ==
  (Derived /\ ~result.analyzerReady)
    => /\ result.brandStatus = "NOT_EVALUATED"
       /\ result.volumeStatus = "NOT_EVALUATED"
       /\ result.osdStatus = "NOT_EVALUATED"

\* C3 (amended): for a session reported not ready the brand status is
\* NOT_EVALUATED, and the volume (osd) status is NOT_EVALUATED unless the
\* session or its analysis_result carries a tri-state value for volume (osd),
\* whatever the issue flags are.
C3_NotReady ==
  (Derived /\ ~result.analyzerReady)
    => /\ result.brandStatus = "NOT_EVALUATED"
       /\ (session.volume_status \notin MetricTriStates
             /\ session.analysis_result.volume_status \notin MetricTriStates)
            => result.volumeStatus = "NOT_EVALUATED"
       /\ (session.osd_status \notin MetricTriStates
             /\ session.analysis_result.osd_status \notin MetricTriStates)
            => result.osdStatus = "NOT_EVALUATED"

\* a pending session with every issue flag raised and no tri-state for
\* volume and osd has been reconciled
C3_Witness ==
  /\ Derived
  /\ ~result.analyzerReady
  /\ session.brand_mismatch /\ session.has_volume_issue /\ session.has_osd_issue
  /\ session.brand_status = "OK"
  /\ session.volume_status = UNDEFINED /\ session.osd_status = "UNKNOWN"
  /\ session.analysis_result.volume_status = "UNKNOWN"
  /\ result.volumeStatus = "NOT_EVALUATED" /\ result.osdStatus = "NOT_EVALUATED"

\* C4: a session-level tri-state value of a metric is the status returned
\* for that metric.
C4_SessionTriStateWins ==
  Derived
    => /\ session.brand_status \in MetricTriStates => result.brandStatus = session.brand_status
       /\ session.volume_status \in MetricTriStates
            => result.volumeStatus = session.volume_status
       /\ session.osd_status \in MetricTriStates => result.osdStatus = session.osd_status

\* both brands are strings of at least one character
BothBrandsNonEmpty ==
  /\ session.tv_brand_user.t = "string" /\ Len(session.tv_brand_user.v) > 0
  /\ session.tv_brand_log.t = "string" /\ Len(session.tv_brand_log.v) > 0

\* C10 as stated: brands that are non-empty and differ case-insensitively
\* give hasBrandMismatch and a brand status other than OK.
C10_BrandMismatchAsStated ==
  (Derived /\ BothBrandsNonEmpty
     /\ toLowerCase(session.tv_brand_user.v) # toLowerCase(session.tv_brand_log.v))
    => (result.hasBrandMismatch /\ result.brandStatus # "OK")

\* C10 (amended): brands that are non-empty after trimming and whose trimmed
\* values differ case-insensitively give hasBrandMismatch and a brand status
\* other than OK.
C10_BrandMismatch ==
  (Derived /\ BothBrandsNonEmpty
     /\ trim(session.tv_brand_user.v) # <<>> /\ trim(session.tv_brand_log.v) # <<>>
     /\ toLowerCase(trim(session.tv_brand_user.v)) # toLowerCase(trim(session.tv_brand_log.v)))
    => (result.hasBrandMismatch /\ result.brandStatus # "OK")

\* "LG " against "Samsung" on a ready session without the mismatch flag
C10_Witness ==
  /\ Derived
  /\ session.tv_brand_user = Str(<<"L", "G", " ">>)
  /\ session.tv_brand_log = Str(Samsung)
  /\ session.brand_mismatch = FALSE
  /\ session.analysis_result = NoPayload
  /\ analysisDetails = NoDetails
  /\ result.analyzerReady
  /\ result.hasBrandMismatch
  /\ result.brandStatus = "INCOMPATIBILITY"

\* the characters of a brand slot, none for a slot that holds no string
Chars(brand) == IF brand.t = "string" THEN brand.v ELSE <<>>

\* both non-empty and different when compared case-insensitively
DifferCaseInsensitively(a, b) ==
  a # <<>> /\ b # <<>> /\ toLowerCase(a) # toLowerCase(b)

\* the failed-steps list in force: that of session.analysis_result when it is
\* an array, otherwise that of the analysisDetails argument
FailedStepsInForce ==
  IF session.analysis_result.failed_steps.isArray
    THEN session.analysis_result.failed_steps.items
  ELSE IF analysisDetails.failed_steps.isArray
    THEN analysisDetails.failed_steps.items
  ELSE <<>>

BrandStepListed ==
  \E i \in 1..Len(FailedStepsInForce) : FailedStepsInForce[i] = BRAND_STEP

PreferredPairDiffers ==
  DifferCaseInsensitively(Chars(result.preferredUserBrand), Chars(result.preferredLogBrand))

SessionPairDiffersRaw ==
  DifferCaseInsensitively(Chars(session.tv_brand_user), Chars(session.tv_brand_log))

SessionPairDiffersTrimmed ==
  DifferCaseInsensitively(trim(Chars(session.tv_brand_user)), trim(Chars(session.tv_brand_log)))

BrandStatusFollowsMismatch ==
  result.analyzerReady =>
    result.brandStatus = IF result.hasBrandMismatch THEN "INCOMPATIBILITY" ELSE "OK"

\* C19 as stated: hasBrandMismatch is true exactly when brand_mismatch is true,
\* or the failed steps list the brand step, or the session-level brands are
\* both non-empty and differ case-insensitively, or that pair does not differ
\* and the preferred pair does; a ready session is INCOMPATIBILITY on a
\* mismatch and OK otherwise.
C19_BrandRuleAsStated ==
  Derived =>
    /\ result.hasBrandMismatch <=>
         \/ session.brand_mismatch = TRUE
         \/ BrandStepListed
         \/ SessionPairDiffersRaw
         \/ (~SessionPairDiffersRaw /\ PreferredPairDiffers)
    /\ BrandStatusFollowsMismatch

\* C19 (amended): as stated, with the session-level brands compared after
\* trimming: both non-empty after trimming and the trimmed values differ
\* case-insensitively.
C19_BrandRule ==
  Derived =>
    /\ result.hasBrandMismatch <=>
         \/ session.brand_mismatch = TRUE
         \/ BrandStepListed
         \/ SessionPairDiffersTrimmed
         \/ (~SessionPairDiffersTrimmed /\ PreferredPairDiffers)
    /\ BrandStatusFollowsMismatch

\* a ready session without a user brand: the user brand "lg" of the details'
\* evidence against the session's log brand "Samsung" is a mismatch
C19_Witness ==
  /\ Derived
  /\ result.analyzerReady
  /\ session.brand_mismatch = FALSE
  /\ session.tv_brand_user = Undefined
  /\ session.tv_brand_log = Str(Samsung)
  /\ session.analysis_result = NoPayload
  /\ analysisDetails = Details(NoSteps, Evidence(Str(<<"l", "g">>), Undefined, Str(Samsung)))
  /\ result.hasBrandMismatch
  /\ result.brandStatus = "INCOMPATIBILITY"

\* a brand slot as displayed: the trimmed string, nothing when it is empty
Trimmed(brand) ==
  IF trim(Chars(brand)) # <<>> THEN Str(trim(Chars(brand))) ELSE Undefined

\* the first of the values that is neither null nor undefined
RECURSIVE FirstPresent(_)
FirstPresent(values) ==
  IF values = <<>> THEN Undefined
  ELSE IF Head(values).t # "undefined" THEN Head(values)
  ELSE FirstPresent(Tail(values))

EvidenceUserBrand ==
  Trimmed(FirstPresent(<<session.analysis_result.evidence.tv_brand_user,
                         analysisDetails.evidence.tv_brand_user>>))

EvidenceLogBrand ==
  Trimmed(FirstPresent(<<session.analysis_result.evidence.tv_brand_detected,
                         session.analysis_result.evidence.tv_brand_log,
                         analysisDetails.evidence.tv_brand_detected,
                         analysisDetails.evidence.tv_brand_log>>))

\* C20: preferredUserBrand is the trimmed session-level tv_brand_user when that
\* is a non-empty string and the evidence user brand otherwise (nothing when
\* neither exists); preferredLogBrand is chosen the same way from tv_brand_log
\* and the evidence log brand; neither choice reads the other's inputs.
C20_BrandPreference ==
  Derived =>
    /\ result.preferredUserBrand =
         IF Trimmed(session.tv_brand_user) # Undefined
           THEN Trimmed(session.tv_brand_user) ELSE EvidenceUserBrand
    /\ result.preferredLogBrand =
         IF Trimmed(session.tv_brand_log) # Undefined
           THEN Trimmed(session.tv_brand_log) ELSE EvidenceLogBrand

\* a blank session user brand gives way to the evidence's "lg" while the
\* session log brand "LG " is kept, trimmed, over the evidence's "Samsung"
C20_Witness ==
  /\ Derived
  /\ session.tv_brand_user = Str(<<" ">>)
  /\ session.tv_brand_log = Str(<<"L", "G", " ">>)
  /\ session.analysis_result = NoPayload
  /\ analysisDetails = Details(NoSteps, Evidence(Str(<<"l", "g">>), Undefined, Str(Samsung)))
  /\ result.preferredUserBrand = Str(<<"l", "g">>)
  /\ result.preferredLogBrand = Str(LG)

(***************************************************************************)
(* Properties of the polling driver                                        *)
(***************************************************************************)
\* the step settles the fetch f (its promise resolves or rejects)
Settles(f) ==
  \/ \E response \in Responses(f.sid) : FetchResolve(f, response)
  \/ \E err \in Failures : FetchReject(f, err)

CurrentInFlight == {f \in fetches : f.gen = generationRef /\ ~f.aborted}

\* C1: a fetch that settles under a generation other than the current one
\* changes neither the exposed snapshot nor the exposed error.
C1_GenerationIsolation ==
  [][\A f \in fetches :
       (Settles(f) /\ f.gen # generationRef) => UNCHANGED <<data, error>>]_vars

\* the second session's snapshot is exposed and a late response of an
\* earlier subscription has been discarded
C1_Witness ==
  /\ droppedStale
  /\ sessionId = "second"
  /\ data # NoData
  /\ dataGen = generationRef
  /\ data.session.session_id = "second"

\* C2: once a poll has applied a terminal snapshot, no fetch is issued and
\* no retry timer is pending for as long as the subscription stays the same.
C2_TerminalHalting ==
  [][(pollTerminal /\ generationRef' = generationRef)
       => (pollCount' = pollCount /\ timers' = {})]_vars

\* a terminal snapshot was polled, the snapshot was replaced afterwards by a
\* non-terminal one, and polling stays halted although polls remain
C2_Witness ==
  /\ pollTerminal
  /\ data # NoData
  /\ ~IsTerminal(data)
  /\ timers = {}
  /\ fetches = {}
  /\ pollCount < MaxPolls

\* C5 as stated: in the idle state the snapshot and the error are null, no
\* timer is pending, every fetch still in flight has been aborted, and while
\* the pair stays null no fetch is issued.
C5_IdleAsStated ==
  [][(generationRef' > 0 /\ (Falsy(sessionId') \/ Falsy(apiKey')))
       => /\ data' = NoData
          /\ error' = NULL
          /\ timers' = {}
          /\ \A f \in fetches' : f.aborted
          /\ (generationRef' = generationRef => pollCount' = pollCount)]_vars

\* C5 (amended): on entering the idle state the snapshot and the error are
\* null, no timer is pending and every fetch in flight has been aborted; while
\* the pair stays null the error stays null, no fetch is issued, no timer is
\* armed, and the snapshot changes only by a call of setData.
C5_Idle ==
  [][(generationRef' > 0 /\ (Falsy(sessionId') \/ Falsy(apiKey')))
       => /\ error' = NULL
          /\ timers' = {}
          /\ \A f \in fetches' : f.aborted
          /\ dataGen' = 0
          /\ (generationRef' # generationRef => data' = NoData)
          /\ (generationRef' = generationRef =>
                /\ pollCount' = pollCount
                /\ (data' # data => \E next \in SetStateActions : ReplaceData(next)))]_vars

\* the pair became null while a fetch was in flight: the fetch is aborted and
\* the snapshot that had been polled before is gone
C5_Witness ==
  /\ Idle
  /\ generationRef > 1
  /\ pollCount > 1
  /\ fetches # {}
  /\ data = NoData
  /\ error = NULL

\* C6: for a non-null pair whose exposed snapshot is not terminal, polling is
\* alive: a retry timer is pending or a fetch of the subscription is in flight.
C6_PollingAlive ==
  (generationRef > 0 /\ ~Idle /\ ~IsTerminal(data))
    => (timers # {} \/ CurrentInFlight # {})

\* C7: a failed fetch of the current generation, before the terminal state,
\* sets the error to a message and leaves the retry timer armed.
C7_RecoverableFailure ==
  [][\A f \in fetches : \A err \in Failures :
       (FetchReject(f, err) /\ f.gen = generationRef /\ ~completedRef)
         => /\ error' \in {err.message, "Failed to fetch session"}
            /\ error' # NULL
            /\ \E t \in timers' : t.id = timerRef' /\ t.gen = generationRef]_vars

\* every poll made so far has failed, and the retry timer is armed again
C7_Witness ==
  /\ failStreak = MaxPolls
  /\ error # NULL
  /\ timers # {}

\* C8: after setData has injected a terminal snapshot, no retry timer is
\* pending and no fetch is issued while the subscription stays the same.
C8_InjectedTerminalHalts ==
  [][/\ injectedTerminal' => timers' = {}
     /\ (injectedTerminal /\ generationRef' = generationRef) => pollCount' = pollCount]_vars

\* a terminal snapshot was injected while a fetch was in flight, the fetch
\* has settled since with a failure, and no retry follows
C8_Witness ==
  /\ injectedTerminal
  /\ failStreak > 0
  /\ IsTerminal(data)
  /\ fetches = {}
  /\ timers = {}
  /\ pollCount < MaxPolls

\* C9: the exposed snapshot and the exposed error never come from a fetch of
\* an earlier subscription.
C9_NoCrossSessionLeak ==
  /\ dataGen \in {0, generationRef}
  /\ errorGen \in {0, generationRef}

\* C14: a subscription has at most one fetch in flight and at most one
\* pending retry timer, never both; a timer is armed only by a step that
\* settles a fetch, and a fetch is issued only by a new subscription or by a
\* timer firing.
C14_SingleFlight ==
  [][/\ Cardinality(timers') <= 1
     /\ \A g \in 1..MaxGen : Cardinality({f \in fetches' : f.gen = g}) <= 1
     /\ \A t \in timers' : t.gen = generationRef' /\ t.id = timerRef'
     /\ ~(timers' # {} /\ \E f \in fetches' : f.gen = generationRef')
     /\ (timers' # {} /\ timers' # timers)
          => \E f \in fetches : f.gen = generationRef /\ fetches' = fetches \ {f}
     /\ pollCount' # pollCount
          => \/ generationRef' # generationRef
             \/ \E t \in timers : timers' = timers \ {t}]_vars

\* the second poll of the first subscription has settled and the timer is
\* armed for the third
C14_Witness ==
  /\ generationRef = 1
  /\ pollCount = 2
  /\ fetches = {}
  /\ Cardinality(timers) = 1

\* C15: the rejection of a fetch that is stale, disposed or aborted changes
\* neither the error nor the snapshot and arms no timer.
C15_DiscardedFailure ==
  [][\A f \in fetches : \A err \in Failures :
       (FetchReject(f, err) /\ (f.gen # generationRef \/ f.gen \in cancelled \/ f.aborted))
         => UNCHANGED <<data, error, timers, timerRef>>]_vars

\* a rejection has been discarded, and the current subscription shows its
\* own snapshot without an error
C15_Witness ==
  /\ droppedFailure
  /\ ~Idle
  /\ error = NULL
  /\ data # NoData
  /\ dataGen = generationRef

\* C12 (determinism and purity of deriveMetricStatuses) has no formula: an
\* operator has one value per argument and no state to change.

TerminalStatus(s) == s.overall_status \in {"PASS", "FAIL"}

\* C13 as stated: analyzerReady is true exactly when finished_at is present or
\* overall_status is PASS or FAIL.
C13_ReadinessAsStated ==
  Derived => (result.analyzerReady <=> (~Falsy(session.finished_at) \/ TerminalStatus(session)))

\* C13 (amended): analyzerReady is true exactly when analyzer_ready is true or
\* overall_status is PASS or FAIL; finished_at has no part in it.
C13_Readiness ==
  Derived => (result.analyzerReady <=> (session.analyzer_ready = TRUE \/ TerminalStatus(session)))

\* a finished session whose analyzer has not reported is derived not ready
C13_Witness ==
  /\ Derived
  /\ ~Falsy(session.finished_at)
  /\ session.analyzer_ready = FALSE
  /\ session.overall_status = "AWAITING_INPUT"
  /\ ~result.analyzerReady

Evaluated == {"OK", "FAIL", "INCOMPATIBILITY"}

\* C16: once the derived status of a metric is OK, FAIL or INCOMPATIBILITY,
\* the status derived from the next snapshot of the subscription is not
\* NOT_EVALUATED.
C16_NoReversion ==
  [][Derived =>
       /\ result.brandStatus \in Evaluated => result'.brandStatus # "NOT_EVALUATED"
       /\ result.volumeStatus \in Evaluated => result'.volumeStatus # "NOT_EVALUATED"
       /\ result.osdStatus \in Evaluated => result'.osdStatus # "NOT_EVALUATED"]_vars

\* C17 as stated: without a session-level tri-state, a tri-state carried by
\* the analysisDetails argument is the returned status.
C17_DetailsTriStateAsStated ==
  Derived =>
    /\ (~isMetricTriState(session.volume_status) /\ isMetricTriState(analysisDetails.volume_status))
         => result.volumeStatus = analysisDetails.volume_status
    /\ (~isMetricTriState(session.osd_status) /\ isMetricTriState(analysisDetails.osd_status))
         => result.osdStatus = analysisDetails.osd_status

\* the status the readiness rule and the issue-flag fallback give
ReadinessOrFallback(issue) ==
  IF ~result.analyzerReady THEN "NOT_EVALUATED" ELSE IF issue THEN "FAIL" ELSE "OK"

\* C17 (amended): for volume and osd, without a session-level tri-state, a
\* tri-state carried by session.analysis_result is the returned status, ready
\* or not and whatever the issue flag is; a tri-state carried by the
\* analysisDetails argument is not consulted.
C17_PayloadTriState ==
  Derived =>
    /\ ~isMetricTriState(session.volume_status) =>
         result.volumeStatus =
           IF isMetricTriState(session.analysis_result.volume_status)
             THEN session.analysis_result.volume_status
             ELSE ReadinessOrFallback(session.has_volume_issue)
    /\ ~isMetricTriState(session.osd_status) =>
         result.osdStatus =
           IF isMetricTriState(session.analysis_result.osd_status)
             THEN session.analysis_result.osd_status
             ELSE ReadinessOrFallback(session.has_osd_issue)

\* a pending session takes FAIL from its analysis_result while the details
\* of the analysis_summary row say OK
C17_Witness ==
  /\ Derived
  /\ ~result.analyzerReady
  /\ session.volume_status = UNDEFINED
  /\ session.analysis_result.volume_status = "FAIL"
  /\ analysisDetails.volume_status = "OK"
  /\ result.volumeStatus = "FAIL"

\* C18: for a ready session without a session-level tri-state and without a
\* tri-state in the evidence the resolution reads (session.analysis_result),
\* the volume (osd) status is FAIL if has_volume_issue (has_osd_issue) is true
\* and OK otherwise.
C18_IssueFlagFallback ==
  (Derived /\ result.analyzerReady) =>
    /\ (~isMetricTriState(session.volume_status)
          /\ ~isMetricTriState(session.analysis_result.volume_status))
         => result.volumeStatus = IF session.has_volume_issue THEN "FAIL" ELSE "OK"
    /\ (~isMetricTriState(session.osd_status)
          /\ ~isMetricTriState(session.analysis_result.osd_status))
         => result.osdStatus = IF session.has_osd_issue THEN "FAIL" ELSE "OK"

\* a ready session with a volume issue and no tri-state anywhere is FAIL
C18_Witness ==
  /\ Derived
  /\ session.analyzer_ready = TRUE
  /\ session.has_volume_issue
  /\ session.volume_status = UNDEFINED
  /\ session.analysis_result = NoPayload
  /\ analysisDetails.volume_status = UNDEFINED
  /\ result.volumeStatus = "FAIL"

(***************************************************************************)
(* Properties of the summary                                               *)
(***************************************************************************)
Rendered == summary # NoSummary

\* the details of the first analysis_summary row carry conflict_tester_vs_logs true
ConflictFlagged ==
  \E i \in 1..Len(timeline) :
    /\ timeline[i].name = "analysis_summary"
    /\ \A j \in 1..(i - 1) : timeline[j].name # "analysis_summary"
    /\ timeline[i].details.conflict_tester_vs_logs = JSON_TRUE

\* C11: whenever the analysis_summary details have conflict_tester_vs_logs
\* true, the rendered summary shows the conflict block, whatever the
\* session's overall_status and has_failure are.
C11_ConflictSurfaced == (Rendered /\ ConflictFlagged) => summary.conflictDetected

\* a passed session without failure, badge PASS, shows the conflict block
C11_Witness ==
  /\ Rendered
  /\ ConflictFlagged
  /\ session.overall_status = "PASS"
  /\ ~session.has_failure
  /\ summary.badgeLabel = "PASS"
  /\ summary.conflictDetected

\* C23: when the pair changes to a new non-null pair, every fetch in flight
\* is aborted, no retry timer is left, completedRef is false, the generation
\* is one higher and a fetch for the new pair is in flight, whether or not the
\* previous subscription had reached the terminal state.
C23_PairSwitchResets ==
  [][\A sid \in SessionIdProps : \A key \in ApiKeyProps :
       (ChangePair(sid, key) /\ ~Falsy(sid) /\ ~Falsy(key)) =>
         /\ \A f \in fetches : [f EXCEPT !.aborted = TRUE] \in fetches'
         /\ timers' = {}
         /\ timerRef' = 0
         /\ completedRef' = FALSE
         /\ generationRef' = generationRef + 1
         /\ pollCount' = pollCount + 1
         /\ \E f \in fetches' \ fetches :
              /\ f.gen = generationRef' /\ f.sid = sid /\ f.key = key /\ ~f.aborted
              /\ f.id = activeControllerRef']_vars

\* the previous subscription had polled a terminal snapshot (still exposed);
\* after the switch the flag is down and the new pair's fetch is in flight
C23_Witness ==
  /\ generationRef >= 2
  /\ ~Idle
  /\ IsTerminal(data)
  /\ dataGen = generationRef - 1
  /\ ~completedRef
  /\ timers = {}
  /\ \E f \in fetches : f.gen = generationRef /\ ~f.aborted

\* C25: a successful response of the current generation becomes the exposed
\* snapshot and clears the error; and whenever the exposed error is set, the
\* last fetch of the current subscription that settled without being
\* discarded was a failure.
C25_ErrorMeansLastFetchFailed ==
  [][/\ \A f \in fetches : \A response \in Responses(f.sid) :
          (FetchResolve(f, response) /\ f.gen = generationRef /\ f.gen \notin cancelled)
            => (data' = response /\ error' = NULL)
     /\ error' # NULL => failStreak' > 0]_vars

\* C26: while the pair stays the same, no poll response replaces an exposed
\* terminal snapshot.
C26_TerminalNotReplaced ==
  [][\A f \in fetches : \A response \in Responses(f.sid) :
       (FetchResolve(f, response) /\ IsTerminal(data) /\ generationRef' = generationRef)
         => data' = data]_vars

\* C27: whenever completedRef is set, the exposed snapshot is non-null,
\* finished and analysis-ready.
C27_CompletedMeansTerminal == completedRef => IsTerminal(data)

\* C29: the rejection of a fetch of the current generation leaves the exposed
\* snapshot (and completedRef) as they were; of the exposed state only the
\* error is written.
C29_FailureKeepsSnapshot ==
  [][\A f \in fetches : \A err \in Failures :
       (FetchReject(f, err) /\ f.gen = generationRef)
         => /\ data' = data
            /\ completedRef' = completedRef
            /\ (f.gen \notin cancelled /\ ~f.aborted) => error' = errorMessage(err)]_vars

\* the snapshot polled by this subscription is still exposed after two
\* failures in a row
C29_Witness ==
  /\ failStreak >= 2
  /\ error # NULL
  /\ data # NoData
  /\ dataGen = generationRef

\* a value in a tri-state slot that is none of the four
Malformed(value) == value # UNDEFINED /\ value \notin MetricTriStates

\* C22 as stated: a metric with a malformed session-level or evidence-level
\* field has the status NOT_EVALUATED.
C22_MalformedAsStated ==
  Rendered =>
    /\ Malformed(session.brand_status) => summary.brandTriState = "NOT_EVALUATED"
    /\ (Malformed(session.volume_status) \/ Malformed(session.analysis_result.volume_status))
         => summary.volumeTriState = "NOT_EVALUATED"
    /\ (Malformed(session.osd_status) \/ Malformed(session.analysis_result.osd_status))
         => summary.osdTriState = "NOT_EVALUATED"

\* a field as the resolution sees it: a malformed value counts as absent
WellFormed(value) == IF value \in MetricTriStates THEN value ELSE UNDEFINED

\* the status of volume or osd with malformed values counted as absent
ExpectedStatus(sessionValue, payloadValue, issue) ==
  IF WellFormed(sessionValue) # UNDEFINED THEN sessionValue
  ELSE IF WellFormed(payloadValue) # UNDEFINED THEN payloadValue
  ELSE IF ~summary.analyzerReady THEN "NOT_EVALUATED"
  ELSE IF issue THEN "FAIL" ELSE "OK"

Labels == {"OK", "FAIL", "INCOMPATIBILITY", "NOT EVALUATED YET"}

\* C22 (amended): a malformed value in a tri-state field counts as absent: the
\* status is the one the other sources give (the well-formed session or
\* analysis_result value, else NOT_EVALUATED for a session that is not ready,
\* else the brand rule or the issue flag), and the malformed value is neither
\* a status nor a badge label.
C22_MalformedIgnored ==
  Rendered =>
    /\ summary.brandTriState =
         IF WellFormed(session.brand_status) # UNDEFINED THEN session.brand_status
         ELSE IF ~summary.analyzerReady THEN "NOT_EVALUATED"
         ELSE IF session.brand_mismatch THEN "INCOMPATIBILITY" ELSE "OK"
    /\ summary.volumeTriState =
         ExpectedStatus(session.volume_status, session.analysis_result.volume_status,
                        session.has_volume_issue)
    /\ summary.osdTriState =
         ExpectedStatus(session.osd_status, session.analysis_result.osd_status,
                        session.has_osd_issue)
    /\ {summary.brandLabel, summary.volumeLabel, summary.osdLabel} \subseteq Labels

\* a ready session whose three fields are malformed shows OK, FAIL and OK
C22_Witness ==
  /\ Rendered
  /\ session.analyzer_ready = TRUE
  /\ session.brand_status = "UNKNOWN"
  /\ session.volume_status = "UNKNOWN"
  /\ session.osd_status = "UNKNOWN"
  /\ session.analysis_result = NoPayload
  /\ session.has_volume_issue
  /\ ~session.brand_mismatch
  /\ summary.brandLabel = "OK"
  /\ summary.volumeLabel = "FAIL"
  /\ summary.osdLabel = "OK"

\* the details of the first analysis_summary row, if there is one
HasSummaryRow == \E i \in 1..Len(timeline) : timeline[i].name = "analysis_summary"

FirstSummaryRow ==
  CHOOSE i \in 1..Len(timeline) :
    /\ timeline[i].name = "analysis_summary"
    /\ \A j \in 1..(i - 1) : timeline[j].name # "analysis_summary"

FlagInForce ==
  IF HasSummaryRow THEN timeline[FirstSummaryRow].details.conflict_tester_vs_logs ELSE UNDEFINED

LogVerdictInForce ==
  IF HasSummaryRow THEN timeline[FirstSummaryRow].details.log_verdict ELSE UNDEFINED

TesterVerdictInForce ==
  IF HasSummaryRow THEN timeline[FirstSummaryRow].details.tester_verdict ELSE UNDEFINED

\* C21 as stated: a conflict or warning indicator is shown exactly when the
\* conflict flag is true or the log verdict is INCONCLUSIVE while the tester
\* verdict is PASS.
C21_ConflictOrWarningAsStated ==
  Rendered =>
    ((summary.conflictDetected \/ summary.telemetryWarning)
       <=> \/ FlagInForce = JSON_TRUE
           \/ (LogVerdictInForce = "INCONCLUSIVE" /\ TesterVerdictInForce = "PASS"))

\* C21 (amended): the conflict block is shown exactly when the conflict flag
\* is true; the warning is shown exactly when the flag is not true and the log
\* verdict is INCONCLUSIVE, whatever the tester verdict is.
C21_ConflictOrWarning ==
  Rendered =>
    /\ summary.conflictDetected <=> FlagInForce = JSON_TRUE
    /\ summary.telemetryWarning
         <=> (FlagInForce # JSON_TRUE /\ LogVerdictInForce = "INCONCLUSIVE")

\* the tester says FAIL, the logs are inconclusive, the flag is false: the
\* warning is shown
C21_Witness ==
  /\ Rendered
  /\ HasSummaryRow
  /\ TesterVerdictInForce = "FAIL"
  /\ LogVerdictInForce = "INCONCLUSIVE"
  /\ FlagInForce = JSON_FALSE
  /\ summary.telemetryWarning
  /\ ~summary.conflictDetected

(***************************************************************************)
(* Properties of the page                                                  *)
(***************************************************************************)
BannerDisplayed == showCompletionBanner(completionBanner, selectedSessionId)

SummaryDisplayed == showSummary(selectedSessionId, sessionData)

\* C24: selecting a scenario without a recorded session leaves no selected
\* session, no snapshot, no summary and no banner; and in every state a
\* displayed banner carries the id of the selected session, which is set.
C24_SelectedSessionOnly ==
  [][/\ \A nextScenario \in Scenarios :
          (handleScenarioSelect(nextScenario) /\ lastSessionByScenario[nextScenario] = NULL)
            => /\ selectedSessionId' = NULL
               /\ sessionData' = NoData
               /\ ~SummaryDisplayed'
               /\ ~BannerDisplayed'
     /\ BannerDisplayed' =>
          (completionBanner' # NULL /\ completionBanner' = selectedSessionId')
     /\ selectedSessionId' = NULL => (~SummaryDisplayed' /\ ~BannerDisplayed')]_vars

\* a session was run for the first scenario, then the second scenario,
\* which has none, was selected
C24_Witness ==
  /\ selectedScenarioId = "LIVE_BUTTON_MAPPING"
  /\ lastSessionByScenario["TV_AUTO_SYNC"] # NULL
  /\ lastSessionByScenario["LIVE_BUTTON_MAPPING"] = NULL
  /\ selectedSessionId = NULL
  /\ sessionData = NoData
  /\ completionBanner = NULL
  /\ ~SummaryDisplayed
  /\ ~BannerDisplayed

(***************************************************************************)
(* Properties across the driver and the reconciler                         *)
(***************************************************************************)
\* the snapshot the driver would test, holding the session evaluated
SnapshotOfSession == [session |-> session]

\* C28: a snapshot on which the driver stops polling (finished_at present and
\* analyzer_ready true) is reported ready by the reconciler, and its brand
\* status is not NOT_EVALUATED.
C28_CompletionAgrees ==
  (Derived /\ isComplete(SnapshotOfSession))
    => (result.analyzerReady = TRUE /\ result.brandStatus # "NOT_EVALUATED")

\* a complete snapshot without a verdict, evaluated
C28_Witness ==
  /\ Derived
  /\ isComplete(SnapshotOfSession)
  /\ session.overall_status = "AWAITING_INPUT"
  /\ result.analyzerReady = TRUE
  /\ result.brandStatus = "OK"

(***************************************************************************)
(* Properties of the overall verdict                                       *)
(***************************************************************************)
\* analyzer_ready true, or overall_status PASS or FAIL
SessionReady ==
  session.analyzer_ready = TRUE \/ session.overall_status \in {"PASS", "FAIL"}

SessionPassed == session.overall_status = "PASS" /\ session.has_failure = FALSE

\* C30: the verdict is pending exactly when the session is not ready, pass
\* exactly when it is ready with overall_status PASS and has_failure false,
\* fail in every other ready case; brandMismatch is true only for a ready
\* session whose brand_mismatch is true, never with a pending verdict.
C30_OverallVerdict ==
  Rendered =>
    /\ summary.analyzerUi.status \in {"pending", "pass", "fail"}
    /\ summary.analyzerUi.status = "pending" <=> ~SessionReady
    /\ summary.analyzerUi.status = "pass" <=> (SessionReady /\ SessionPassed)
    /\ summary.analyzerUi.status = "fail" <=> (SessionReady /\ ~SessionPassed)
    /\ summary.analyzerUi.brandMismatch => (SessionReady /\ session.brand_mismatch = TRUE)
    /\ summary.analyzerUi.status = "pending" => ~summary.analyzerUi.brandMismatch

\* a session ready by its PASS verdict alone, with a failure and a brand
\* mismatch, rendered
C30_Witness ==
  /\ Rendered
  /\ session.analyzer_ready = FALSE
  /\ session.overall_status = "PASS"
  /\ session.has_failure = TRUE
  /\ session.brand_mismatch = TRUE
  /\ summary.analyzerUi.status = "fail"
  /\ summary.analyzerUi.brandMismatch

====
